---- MODULE Spec2Model ----
(***************************************************************************)
(* Model of app/main.py: the Validator descriptor, its two subclasses      *)
(* Number and OneOf, and the BurgerRecipe class whose six attributes are   *)
(* bound to them.                                                          *)
(*                                                                         *)
(* Python values are records [ty, n, s]: ty is the value's class, n its    *)
(* numeric value (int, bool as 0/1, float n.0) and s its text (str).       *)
(* An exception is a record [kind, text, args]: kind is the exception      *)
(* class, text the message template and args the values interpolated into  *)
(* it, in order.  NoErr stands for a normal return.                        *)
(***************************************************************************)
EXTENDS Integers, Sequences, FiniteSets, TLC

VARIABLES
    descr,   \* the class attributes of BurgerRecipe: attribute name -> descriptor
    heap,    \* the BurgerRecipe instances a caller holds: sequence of __dict__
    call,    \* the most recent call and its arguments
    last,    \* the outcome of the most recent call
    nops     \* number of calls made so far

vars == <<descr, heap, call, last, nops>>

(***************************** bounds **************************************)
MaxInt == 4      \* integer arguments range over -1 .. MaxInt
MaxOpts == 3     \* longest options tuple given to OneOf
MaxInst == 2     \* most instances alive at once
MaxOps == 3      \* most calls in one behaviour of Spec

(***************************** values **************************************)
IntV(k) == [ty |-> "int", n |-> k, s |-> ""]
BoolV(b) == [ty |-> "bool", n |-> IF b THEN 1 ELSE 0, s |-> ""]
FloatV(k) == [ty |-> "float", n |-> k, s |-> ""]
StrV(t) == [ty |-> "str", n |-> 0, s |-> t]
NoneV == [ty |-> "NoneType", n |-> 0, s |-> ""]

Ints == (0 - 1) .. MaxInt
Strs == {"ketchup", "mayo", "burger", "mustard"}
Values ==
    {IntV(k) : k \in Ints} \cup {BoolV(b) : b \in BOOLEAN}
        \cup {FloatV(2), NoneV} \cup {StrV(t) : t \in Strs}

\* Python's ==: numbers (bool included) compare by value, strings by text.
NumTypes == {"int", "bool", "float"}
PyEq(a, b) ==
    \/ a.ty \in NumTypes /\ b.ty \in NumTypes /\ a.n = b.n
    \/ a.ty = "str" /\ b.ty = "str" /\ a.s = b.s
    \/ a.ty = "NoneType" /\ b.ty = "NoneType"

\* isinstance(value, int): bool is a subclass of int.
IsInstanceInt(value) == value.ty \in {"int", "bool"}

\* value in options, for a tuple: a left-to-right scan with ==.
RECURSIVE PyIn(_, _)
PyIn(value, options) ==
    IF options = <<>> THEN FALSE
    ELSE PyEq(Head(options), value) \/ PyIn(value, Tail(options))

(***************************** exceptions **********************************)
NoErr == [kind |-> "None", text |-> "", args |-> <<>>]
Raise(kind, text, args) == [kind |-> kind, text |-> text, args |-> args]
TupleV(options) == [ty |-> "tuple", items |-> options]

(***************************** descriptors *********************************)
Number(min_value, max_value) ==
    [cls |-> "Number", min_value |-> min_value, max_value |-> max_value]
OneOf(options) == [cls |-> "OneOf", options |-> options]

\* Variant: every descriptor uses one backing name, whatever the attribute.
Validator_set_name_Shared(self, name) ==
    [k \in DOMAIN self \cup {"protected_name"} |->
        IF k = "protected_name" THEN "_value" ELSE self[k]]

Validator_set_name(self, name) ==
    [k \in DOMAIN self \cup {"protected_name"} |->
        IF k = "protected_name" THEN "_" \o name ELSE self[k]]

Validator_validate(self, value) ==
    Raise("NotImplementedError", "Subclasses must implement validate().", <<>>)

\* Variant: the bounds are exclusive.
Number_validate_Exclusive(self, value) ==
    IF ~IsInstanceInt(value)
    THEN Raise("TypeError", "Quantity should be integer.", <<>>)
    ELSE IF ~(self.min_value < value.n /\ value.n < self.max_value)
    THEN Raise("ValueError",
               "Quantity should not be less than {} and greater than {}.",
               <<IntV(self.min_value), IntV(self.max_value)>>)
    ELSE NoErr

\* Variant: only the lower bound is checked.
Number_validate_NoUpper(self, value) ==
    IF ~IsInstanceInt(value)
    THEN Raise("TypeError", "Quantity should be integer.", <<>>)
    ELSE IF ~(self.min_value <= value.n)
    THEN Raise("ValueError",
               "Quantity should not be less than {} and greater than {}.",
               <<IntV(self.min_value), IntV(self.max_value)>>)
    ELSE NoErr

\* Variant: a value of the wrong type raises ValueError as well.
Number_validate_TypeAsValueError(self, value) ==
    IF ~IsInstanceInt(value)
    THEN Raise("ValueError", "Quantity should be integer.", <<>>)
    ELSE IF ~(self.min_value <= value.n /\ value.n <= self.max_value)
    THEN Raise("ValueError",
               "Quantity should not be less than {} and greater than {}.",
               <<IntV(self.min_value), IntV(self.max_value)>>)
    ELSE NoErr

\* Variant: the message interpolates min_value twice and never max_value.
Number_validate_MsgNoMax(self, value) ==
    IF ~IsInstanceInt(value)
    THEN Raise("TypeError", "Quantity should be integer.", <<>>)
    ELSE IF ~(self.min_value <= value.n /\ value.n <= self.max_value)
    THEN Raise("ValueError",
               "Quantity should not be less than {} and greater than {}.",
               <<IntV(self.min_value), IntV(self.min_value)>>)
    ELSE NoErr

Number_validate(self, value) ==
    IF ~IsInstanceInt(value)
    THEN Raise("TypeError", "Quantity should be integer.", <<>>)
    ELSE IF ~(self.min_value <= value.n /\ value.n <= self.max_value)
    THEN Raise("ValueError",
               "Quantity should not be less than {} and greater than {}.",
               <<IntV(self.min_value), IntV(self.max_value)>>)
    ELSE NoErr

\* Variant: only the first option is compared.
OneOf_validate_HeadOnly(self, value) ==
    IF ~PyEq(Head(self.options), value)
    THEN Raise("ValueError", "Expected {} to be one of {}.",
               <<value, TupleV(self.options)>>)
    ELSE NoErr

OneOf_validate(self, value) ==
    IF ~PyIn(value, self.options)
    THEN Raise("ValueError", "Expected {} to be one of {}.",
               <<value, TupleV(self.options)>>)
    ELSE NoErr

\* self.validate(value): dispatch on the descriptor's class.
Validate(self, value) ==
    CASE self.cls = "Number" -> Number_validate(self, value)
      [] self.cls = "OneOf" -> OneOf_validate(self, value)
      [] OTHER -> Validator_validate(self, value)

\* getattr / setattr on an instance __dict__ (a function from names to values).
HasAttr(instance, name) == name \in DOMAIN instance
SetAttr(instance, name, value) ==
    [k \in DOMAIN instance \cup {name} |-> IF k = name THEN value ELSE instance[k]]

\* Validator.__get__ on an instance: [err, value].
Validator_get(self, instance) ==
    IF HasAttr(instance, self.protected_name)
    THEN [err |-> NoErr, value |-> instance[self.protected_name]]
    ELSE [err |-> Raise("AttributeError", "no attribute {}", <<StrV(self.protected_name)>>),
          value |-> NoneV]

\* Variant: the value is stored before it is validated.
Validator_set_StoreFirst(self, instance, value) ==
    [err |-> Validate(self, value),
     obj |-> SetAttr(instance, self.protected_name, value)]

\* Validator.__set__: [err, obj], obj being the instance __dict__ afterwards.
Validator_set(self, instance, value) ==
    LET e == Validate(self, value) IN
    IF e # NoErr
    THEN [err |-> e, obj |-> instance]
    ELSE [err |-> NoErr, obj |-> SetAttr(instance, self.protected_name, value)]

(***************************** BurgerRecipe ********************************)
\* The assignments of __init__, in order.
Fields == <<"buns", "cheese", "tomatoes", "cutlets", "eggs", "sauce">>
FieldSet == {Fields[k] : k \in DOMAIN Fields}

\* The class body: the six descriptor declarations.
ClassBody ==
    [f \in FieldSet |->
        CASE f = "buns" -> Number(2, 3)
          [] f = "cheese" -> Number(0, 2)
          [] f = "tomatoes" -> Number(0, 3)
          [] f = "cutlets" -> Number(1, 3)
          [] f = "eggs" -> Number(0, 2)
          [] f = "sauce" -> OneOf(<<StrV("ketchup"), StrV("mayo"), StrV("burger")>>)]

\* Class creation calls __set_name__ on every descriptor of the body.
ClassDescriptors == [f \in FieldSet |-> Validator_set_name(ClassBody[f], f)]

EmptyDict == [k \in {} |-> NoneV]

\* Variant: after a rejected argument the remaining assignments still run, and
\* the first exception is reported at the end.
RECURSIVE InitFrom_Collect(_, _, _, _, _)
InitFrom_Collect(d, args, k, obj, checked) ==
    IF k > Len(Fields) THEN [err |-> NoErr, obj |-> obj, checked |-> checked]
    ELSE LET r == Validator_set(d[Fields[k]], obj, args[k])
             rest == InitFrom_Collect(d, args, k + 1, r.obj, Append(checked, Fields[k]))
         IN  [err |-> IF r.err # NoErr THEN r.err ELSE rest.err,
              obj |-> rest.obj, checked |-> rest.checked]

\* __init__ from its k-th assignment on: [err, obj, checked]; checked logs the
\* attributes whose validate ran.
RECURSIVE InitFrom(_, _, _, _, _)
InitFrom(d, args, k, obj, checked) ==
    IF k > Len(Fields) THEN [err |-> NoErr, obj |-> obj, checked |-> checked]
    ELSE LET r == Validator_set(d[Fields[k]], obj, args[k]) IN
         IF r.err # NoErr
         THEN [err |-> r.err, obj |-> r.obj, checked |-> Append(checked, Fields[k])]
         ELSE InitFrom(d, args, k + 1, r.obj, Append(checked, Fields[k]))

BurgerRecipe_init(d, args) == InitFrom(d, args, 1, EmptyDict, <<>>)

(***************************** calls ***************************************)
NoCall == [op |-> "none"]
NoResult == [op |-> "none", err |-> NoErr]

\* Variant: the object reaches the caller even when __init__ raises.
Construct_Leaky(args) ==
    LET r == BurgerRecipe_init(descr, args) IN
    /\ Len(heap) < MaxInst
    /\ heap' = Append(heap, r.obj)
    /\ call' = [op |-> "new", args |-> args]
    /\ last' = [op |-> "new", err |-> r.err, checked |-> r.checked, partial |-> r.obj]
    /\ nops' = nops + 1
    /\ UNCHANGED descr

\* BurgerRecipe(*args): the new object reaches the caller only if __init__
\* returns; otherwise the exception propagates and the object is dropped.
Construct(args) ==
    LET r == BurgerRecipe_init(descr, args) IN
    /\ Len(heap) < MaxInst
    /\ heap' = IF r.err = NoErr THEN Append(heap, r.obj) ELSE heap
    /\ call' = [op |-> "new", args |-> args]
    /\ last' = [op |-> "new", err |-> r.err, checked |-> r.checked, partial |-> r.obj]
    /\ nops' = nops + 1
    /\ UNCHANGED descr

\* instance.f = value on a live instance.
Set(i, f, value) ==
    LET r == Validator_set(descr[f], heap[i], value) IN
    /\ i \in DOMAIN heap
    /\ heap' = [heap EXCEPT ![i] = r.obj]
    /\ call' = [op |-> "set", inst |-> i, field |-> f, value |-> value]
    /\ last' = [op |-> "set", err |-> r.err]
    /\ nops' = nops + 1
    /\ UNCHANGED descr

\* Arguments of the constructor in Spec: two valid recipes, and each of them
\* with one argument replaced by a value its field rejects.
Good1 == <<IntV(2), IntV(1), IntV(1), IntV(1), IntV(1), StrV("ketchup")>>
Good2 == <<IntV(3), IntV(2), IntV(3), IntV(2), IntV(0), StrV("mayo")>>
BadValues == {NoneV, IntV(MaxInt)}
LifeArgs ==
    {Good1, Good2} \cup
        {[g EXCEPT ![k] = b] : g \in {Good1, Good2}, k \in DOMAIN Fields, b \in BadValues}

Init ==
    /\ descr = ClassDescriptors
    /\ heap = <<>>
    /\ call = NoCall
    /\ last = NoResult
    /\ nops = 0

New == \E args \in LifeArgs : nops < MaxOps /\ Construct(args)
Assign == \E i \in DOMAIN heap, f \in FieldSet, v \in Values : nops < MaxOps /\ Set(i, f, v)

Next == New \/ Assign

Spec == Init /\ [][Next]_vars

(********************* the rules as functions ******************************)
\* Rules given to validate in RuleSpec: Number over every pair of bounds,
\* OneOf over every tuple of up to MaxOpts options, and the six descriptors of
\* BurgerRecipe.
OptTuples == UNION {[1 .. k -> {StrV(t) : t \in Strs}] : k \in 1 .. MaxOpts}
Rules ==
    {Number(mn, mx) : mn \in Ints, mx \in Ints}
        \cup {OneOf(o) : o \in OptTuples}
        \cup {ClassDescriptors[f] : f \in FieldSet}
RuleCalls == {[op |-> "validate", rule |-> r, value |-> v] : r \in Rules, v \in Values}

RuleInit ==
    /\ descr = ClassDescriptors
    /\ heap = <<>>
    /\ call \in RuleCalls
    /\ last = NoResult
    /\ nops = 0

\* rule.validate(value)
RunValidate ==
    /\ nops = 0
    /\ call.op = "validate"
    /\ last' = [op |-> "validate", err |-> Validate(call.rule, call.value)]
    /\ nops' = 1
    /\ UNCHANGED <<descr, heap, call>>

RuleNext == RunValidate

RuleSpec == RuleInit /\ [][RuleNext]_vars

(********************* the constructor as a function ***********************)
\* Arguments given to the constructor in CtorSpec: every six-tuple over
\* integers below, inside and above the ranges, a boolean, and a permitted and
\* a forbidden string.
CtorValues ==
    {IntV(1), IntV(2), IntV(MaxInt), BoolV(TRUE), StrV("ketchup"), StrV("mustard")}
CtorArgs == [DOMAIN Fields -> CtorValues]

CtorInit ==
    /\ descr = ClassDescriptors
    /\ heap = <<>>
    /\ call \in {[op |-> "new", args |-> a] : a \in CtorArgs}
    /\ last = NoResult
    /\ nops = 0

RunNew == nops = 0 /\ call.op = "new" /\ Construct(call.args)

CtorNext == RunNew

CtorSpec == CtorInit /\ [][CtorNext]_vars

(***************************** properties **********************************)
\* The rules as the specification states them (section 4.3), written out
\* independently of the descriptors.  An integer is an integer of the host
\* language: an instance of int, which in Python includes bool (0 and 1).
ClaimOrder == <<"buns", "cheese", "tomatoes", "cutlets", "eggs", "sauce">>
IsInteger(v) == v.ty \in {"int", "bool"}
Within(v, lo, hi) == IsInteger(v) /\ lo <= v.n /\ v.n <= hi
Satisfies(f, v) ==
    CASE f = "buns" -> Within(v, 2, 3)
      [] f = "cheese" -> Within(v, 0, 2)
      [] f = "tomatoes" -> Within(v, 0, 3)
      [] f = "cutlets" -> Within(v, 1, 3)
      [] f = "eggs" -> Within(v, 0, 2)
      [] f = "sauce" -> v \in {StrV("ketchup"), StrV("mayo"), StrV("burger")}
Backing(f) == "_" \o f
Contains(seq, x) == \E k \in DOMAIN seq : seq[k] = x

Validated == nops = 1 /\ call.op = "validate" /\ last.op = "validate"
Constructed == nops = 1 /\ call.op = "new" /\ last.op = "new"

\* The failure the specification names for a rule and a value.
Trigger(rule, v) ==
    CASE rule.cls = "Number" /\ ~IsInteger(v) -> "TypeMismatch"
      [] rule.cls = "Number" /\ IsInteger(v)
            /\ (v.n < rule.min_value \/ v.n > rule.max_value) -> "OutOfRange"
      [] rule.cls = "OneOf" /\ ~Contains(rule.options, v) -> "NotInSet"
      [] OTHER -> "Ok"

(* C1: a Set whose value fails the field's rule surfaces that failure and     *)
(* stores nothing: the instance is as before and Get of the field returns     *)
(* what it returned before the Set.                                           *)
C1_FailedSetStep ==
    /\ nops' = nops + 1
    /\ call'.op = "set"
    /\ Validate(descr[call'.field], call'.value) # NoErr
C1_SetAllOrNothing ==
    [][C1_FailedSetStep =>
        /\ last'.err = Validate(descr[call'.field], call'.value)
        /\ heap' = heap
        /\ Validator_get(descr'[call'.field], heap'[call'.inst])
             = Validator_get(descr[call'.field], heap[call'.inst])]_vars
\* cutlets reads 2, cutlets = 4 has just failed with the range error.
C1_Witness ==
    /\ call.op = "set" /\ call.field = "cutlets" /\ call.value = IntV(4)
    /\ last.err.kind = "ValueError"
    /\ Validator_get(descr["cutlets"], heap[call.inst]).value = IntV(2)

(* C2: construction is fail-fast in the order buns, cheese, tomatoes,         *)
(* cutlets, eggs, sauce: with an invalid argument it fails with the failure   *)
(* of the first invalid one, the fields after it are neither checked nor      *)
(* stored, and buns = 1 fails with the range error whatever the rest is.      *)
C2_Invalid(k) == Validate(descr[ClaimOrder[k]], call.args[k]) # NoErr
C2_First == CHOOSE k \in DOMAIN ClaimOrder : C2_Invalid(k) /\ \A j \in 1 .. k - 1 : ~C2_Invalid(j)
C2_FailFast ==
    (Constructed /\ \E k \in DOMAIN ClaimOrder : C2_Invalid(k)) =>
        /\ last.err = Validate(descr[ClaimOrder[C2_First]], call.args[C2_First])
        /\ last.checked = SubSeq(ClaimOrder, 1, C2_First)
        /\ \A j \in DOMAIN ClaimOrder :
              IF j < C2_First
              THEN HasAttr(last.partial, Backing(ClaimOrder[j]))
                     /\ last.partial[Backing(ClaimOrder[j])] = call.args[j]
              ELSE ~HasAttr(last.partial, Backing(ClaimOrder[j]))
        /\ call.args[1] = IntV(1) =>
              /\ last.err.kind = "ValueError"
              /\ last.err.args = <<IntV(2), IntV(3)>>
              /\ last.checked = <<"buns">>
\* tomatoes is the first of three invalid arguments.
C2_Witness ==
    /\ Constructed
    /\ call.args = <<IntV(2), IntV(1), StrV("mustard"), IntV(MaxInt), IntV(1), StrV("mustard")>>
    /\ last.err.kind = "TypeError"
    /\ last.checked = <<"buns", "cheese", "tomatoes">>

(* C3: construction succeeds exactly when all six arguments satisfy their     *)
(* field's rule; then each field reads back its argument, and when it fails   *)
(* no instance exists.                                                        *)
C3_ConstructIffValid ==
    Constructed =>
        /\ last.err = NoErr <=> \A k \in DOMAIN ClaimOrder : Satisfies(ClaimOrder[k], call.args[k])
        /\ last.err = NoErr =>
              /\ Len(heap) = 1
              /\ \A k \in DOMAIN ClaimOrder :
                    Validator_get(descr[ClaimOrder[k]], heap[1])
                      = [err |-> NoErr, value |-> call.args[k]]
        /\ last.err # NoErr => heap = <<>>
\* (2, 1, 1, 1, 1, "ketchup") has been constructed.
C3_Witness ==
    /\ Constructed
    /\ call.args = <<IntV(2), IntV(1), IntV(1), IntV(1), IntV(1), StrV("ketchup")>>
    /\ Len(heap) = 1
    /\ Validator_get(descr["sauce"], heap[1]).value = StrV("ketchup")

(* C4: Number(min, max).validate accepts every integer in min..max, rejects    *)
(* every integer outside with the range error, and rejects every non-integer  *)
(* with the type error, never with the range error.                           *)
C4_RangeRule ==
    (Validated /\ call.rule.cls = "Number") =>
        LET v == call.value
            mn == call.rule.min_value
            mx == call.rule.max_value
        IN  /\ (IsInteger(v) /\ mn <= v.n /\ v.n <= mx) => last.err = NoErr
            /\ (IsInteger(v) /\ (v.n < mn \/ v.n > mx)) =>
                  /\ last.err.kind = "ValueError"
                  /\ last.err.text = "Quantity should not be less than {} and greater than {}."
            /\ ~IsInteger(v) =>
                  /\ last.err.kind = "TypeError"
                  /\ last.err.text = "Quantity should be integer."
\* Number(1, 3) has just accepted its upper bound 3.
C4_Witness ==
    /\ Validated
    /\ call.rule = Number(1, 3)
    /\ call.value = IntV(3)
    /\ last.err = NoErr

(* C5: a boolean given to Number(min, max).validate fails with the type       *)
(* error, for every min and max.                                              *)
C5_BooleanIsTypeMismatch ==
    (Validated /\ call.rule.cls = "Number" /\ call.value.ty = "bool") =>
        last.err.kind = "TypeError"

(* C6: OneOf(options).validate accepts exactly the values equal to an option, *)
(* rejects the others with the membership error, gives the same answer for    *)
(* every reordering of the options, and for sauce accepts exactly ketchup,    *)
(* mayo and burger.                                                           *)
C6_SameElements(o1, o2) == {o1[k] : k \in DOMAIN o1} = {o2[k] : k \in DOMAIN o2}
C6_SetRule ==
    (Validated /\ call.rule.cls = "OneOf") =>
        LET v == call.value
            opts == call.rule.options
        IN  /\ Contains(opts, v) => last.err = NoErr
            /\ ~Contains(opts, v) =>
                  /\ last.err.kind = "ValueError"
                  /\ last.err.text = "Expected {} to be one of {}."
            /\ \A o \in OptTuples :
                  C6_SameElements(o, opts) =>
                      Validate(OneOf(o), v).kind = last.err.kind
            /\ call.rule = descr["sauce"] =>
                  (last.err = NoErr <=> v \in {StrV("ketchup"), StrV("mayo"), StrV("burger")})
\* sauce has just rejected "mustard".
C6_Witness ==
    /\ Validated
    /\ call.rule = descr["sauce"]
    /\ call.value = StrV("mustard")
    /\ last.err.kind = "ValueError"

(* C7 as stated: the kinds of the three failures are pairwise distinct, so no *)
(* other failing call raises the kind just raised for a different trigger.    *)
C7_KindsPairwiseDistinct ==
    (Validated /\ last.err # NoErr) =>
        \A c \in RuleCalls :
            Validate(c.rule, c.value).kind = last.err.kind =>
                Trigger(c.rule, c.value) = Trigger(call.rule, call.value)
(* C7 as amended: the type failure is raised as TypeError and the range and   *)
(* membership failures are both raised as ValueError; the kind separates the  *)
(* type failure from the other two and nothing more.                          *)
C7_KindOfFailure ==
    Validated =>
        LET t == Trigger(call.rule, call.value) IN
        /\ t = "TypeMismatch" <=> last.err.kind = "TypeError"
        /\ t \in {"OutOfRange", "NotInSet"} <=> last.err.kind = "ValueError"
        /\ t = "Ok" <=> last.err = NoErr
\* a membership failure has been raised as ValueError.
C7_Witness ==
    /\ Validated
    /\ Trigger(call.rule, call.value) = "NotInSet"
    /\ last.err.kind = "ValueError"

(* C8 as stated: the range failure carries the rejected value, min and max.   *)
C8_CarriesValueMinMax ==
    (Validated /\ Trigger(call.rule, call.value) = "OutOfRange") =>
        /\ Contains(last.err.args, call.value)
        /\ Contains(last.err.args, IntV(call.rule.min_value))
        /\ Contains(last.err.args, IntV(call.rule.max_value))
(* C8 as amended: the range failure carries min and max, in that order, and   *)
(* nothing else: the rejected value is not interpolated into it.              *)
C8_CarriesMinMax ==
    (Validated /\ Trigger(call.rule, call.value) = "OutOfRange") =>
        /\ last.err.text = "Quantity should not be less than {} and greater than {}."
        /\ last.err.args = <<IntV(call.rule.min_value), IntV(call.rule.max_value)>>
\* cutlets has just rejected 4.
C8_Witness ==
    /\ Validated
    /\ call.rule = descr["cutlets"]
    /\ call.value = IntV(4)
    /\ last.err.kind = "ValueError"

(* C9: every field of every instance is readable and holds a value that       *)
(* satisfies its rule, after any sequence of successful and failed            *)
(* assignments.                                                               *)
C9_FieldsAlwaysValid ==
    \A i \in DOMAIN heap, f \in FieldSet :
        LET g == Validator_get(descr[f], heap[i]) IN
        g.err = NoErr /\ Satisfies(f, g.value)
\* an instance that an assignment has changed, after a failed assignment.
C9_Witness ==
    /\ Len(heap) >= 1
    /\ heap[1] \notin {BurgerRecipe_init(descr, a).obj : a \in {Good1, Good2}}
    /\ call.op = "set"
    /\ last.err # NoErr

(* C10: a Set on field f of instance i changes at most the backing value of f *)
(* on i: every other field of i, every field of every other instance, the set *)
(* of instances and the six descriptors stay as they were.                    *)
C10_SetStep == nops' = nops + 1 /\ call'.op = "set"
C10_SetFrame ==
    [][C10_SetStep =>
        /\ descr' = descr
        /\ DOMAIN heap' = DOMAIN heap
        /\ \A j \in DOMAIN heap, g \in FieldSet :
              (j # call'.inst \/ g # call'.field) =>
                  Validator_get(descr'[g], heap'[j]) = Validator_get(descr[g], heap[j])
        /\ \A j \in DOMAIN heap :
              /\ DOMAIN heap'[j] = DOMAIN heap[j]
              /\ \A n \in DOMAIN heap[j] :
                    (j # call'.inst \/ n # descr[call'.field].protected_name) =>
                        heap'[j][n] = heap[j][n]]_vars
\* two instances, the first just changed by a successful assignment.
C10_Witness ==
    /\ Len(heap) = 2
    /\ call.op = "set" /\ call.inst = 1
    /\ last.err = NoErr
    /\ heap[1] # heap[2]
====
